---- MODULE Spec2Model ----
(***************************************************************************)
(* Model of docs/tutorials/kernels.ipynb of tinygp: the custom             *)
(* SpectralMixture kernel and the notebook's fit of it with optax.sgd.     *)
(*                                                                         *)
(* Two specifications share the module.  SpecEval draws a kernel and an    *)
(* input pair and applies SpectralMixture.evaluate to it; Spec runs the    *)
(* notebook's cells in order.                                              *)
(*                                                                         *)
(* Numbers.  Inputs X and scales are integers; a frequency is held as a    *)
(* count of quarters (freq = fq/4), so that cos(2*pi*freq*tau) is exact:   *)
(* it is CosTab at (fq*tau) mod 4.  exp(-2*pi^2*r) for a rational r is     *)
(* held symbolically as the monomial [c |-> 1, e |-> r]; monomials         *)
(* multiply by adding exponents, and a sum of monomials is the set of its  *)
(* non-zero terms, one per exponent.                                       *)
(***************************************************************************)
EXTENDS Integers, Sequences, FiniteSets

\* ------------------------------------------------------------------ bounds

\* Largest number of mixture components drawn for a kernel.
MaxQ == 2
\* Largest dimension of a vector input drawn for evaluate.
MaxD == 2

\* The values the coordinates of the drawn inputs X1 and X2 take, and the
\* shifts.
X1Vals == 0..2
X2Vals == {0, 3}
ShiftVals == {1, 2}
\* Mixture components <<weight, scale, freq in quarters>> a kernel is drawn from.
CompVals == {<<1, 1, 4>>, <<2, 2, 1>>, <<3, 1, 2>>}

\* ------------------------------------------------------- exact arithmetic

RECURSIVE GCD(_, _)
GCD(a, b) == IF b = 0 THEN a ELSE GCD(b, a % b)

\* The rational n/d (n >= 0, d > 0) in lowest terms.
Rat(n, d) == LET g == GCD(n, d) IN <<n \div g, d \div g>>

RatAdd(r, s) == Rat(r[1] * s[2] + s[1] * r[2], r[2] * s[2])

\* cos(2*pi*k/4) for k = 0, 1, 2, 3.
CosTab == <<1, 0, -1, 0>>

\* ------------------------------------------------------------- elements

Sub(x, y) == x - y

Add(x, c) == x + c

Abs(x) == IF x < 0 THEN -x ELSE x

Square(x) == x * x

\* tau**2 / scale**2, a rational.
Div(x, y) == Rat(x, y)

\* exp(-2*pi^2 * r): the monomial of exponent r.
ExpNeg(r) == [c |-> 1, e |-> r]

\* freq * tau, in quarters of a turn.
Mul(x, y) == x * y

\* cos(2*pi*k/4).
Cos(k) == [c |-> CosTab[(k % Len(CosTab)) + 1], e |-> <<0, 1>>]

\* The product of two monomials.
MonoMul(m, n) == [c |-> m.c * n.c, e |-> RatAdd(m.e, n.e)]

\* A number times a monomial.
Scale(w, m) == [c |-> w * m.c, e |-> m.e]

MonoOne == [c |-> 1, e |-> <<0, 1>>]

\* jnp.exp of a hyperparameter, held symbolically.
Exp(v) == [exp |-> v]

\* The elementwise functions of one argument, by name.
Apply1(f, x) ==
    CASE f = "abs" -> Abs(x)
      [] f = "square" -> Square(x)
      [] f = "exp_neg" -> ExpNeg(x)
      [] f = "cos" -> Cos(x)
      [] f = "exp" -> Exp(x)

\* The elementwise operators of two arguments, by name.
Apply2(op, x, y) ==
    CASE op = "sub" -> Sub(x, y)
      [] op = "add" -> Add(x, y)
      [] op = "div" -> Div(x, y)
      [] op = "mul" -> Mul(x, y)
      [] op = "mono_mul" -> MonoMul(x, y)
      [] op = "scale" -> Scale(x, y)

\* ---------------------------------------------------------------- arrays
\* An array is [shape, data]: data in row-major order, shape of rank 0, 1
\* or 2.  A failed broadcast is the array ShapeError, which every later
\* operation passes on.

ShapeError == [shape |-> <<-1>>, data |-> <<>>]

IsError(a) == a.shape = <<-1>>

Scalar(v) == [shape |-> <<>>, data |-> <<v>>]

Vector(s) == [shape |-> <<Len(s)>>, data |-> s]

Rank(a) == Len(a.shape)

\* jnp.atleast_1d: a 0-d array becomes a 1-d array of one element.
AtLeast1d(a) ==
    IF IsError(a) THEN a
    ELSE IF Rank(a) = 0 THEN [shape |-> <<1>>, data |-> a.data] ELSE a

\* a[..., None]: a new axis of length 1 after the last one.
ExpandLast(a) ==
    IF IsError(a) THEN a ELSE [shape |-> Append(a.shape, 1), data |-> a.data]

\* The shape padded on the left with 1s to rank 2.
Pad2(shape) ==
    IF Len(shape) = 0 THEN <<1, 1>>
    ELSE IF Len(shape) = 1 THEN <<1, shape[1]>> ELSE shape

BroadcastDim(m, n) == IF m = n THEN m ELSE IF m = 1 THEN n ELSE IF n = 1 THEN m ELSE -1

Max(m, n) == IF m >= n THEN m ELSE n

\* The element of a at row i, column j of the broadcast result.
ElemAt(a, i, j) ==
    LET p == Pad2(a.shape)
        ii == IF p[1] = 1 THEN 1 ELSE i
        jj == IF p[2] = 1 THEN 1 ELSE j
    IN a.data[(ii - 1) * p[2] + jj]

\* The operator op applied elementwise to a and b under NumPy's
\* broadcasting rule.
Broadcast(op, a, b) ==
    IF IsError(a) \/ IsError(b) THEN ShapeError
    ELSE
        LET p == Pad2(a.shape)
            q == Pad2(b.shape)
            r == BroadcastDim(p[1], q[1])
            c == BroadcastDim(p[2], q[2])
            rank == Max(Rank(a), Rank(b))
        IN IF r = -1 \/ c = -1 THEN ShapeError
           ELSE [shape |-> SubSeq(<<r, c>>, 3 - rank, 2),
                 data |-> [k \in 1..(r * c) |->
                             Apply2(op,
                                ElemAt(a, ((k - 1) \div c) + 1, ((k - 1) % c) + 1),
                                ElemAt(b, ((k - 1) \div c) + 1, ((k - 1) % c) + 1))]]

\* The function f applied elementwise to a.
Map(f, a) ==
    IF IsError(a) THEN a
    ELSE [shape |-> a.shape, data |-> [k \in 1..Len(a.data) |-> Apply1(f, a.data[k])]]

RECURSIVE ProdSeq(_)
ProdSeq(s) == IF s = <<>> THEN MonoOne ELSE MonoMul(Head(s), ProdSeq(Tail(s)))

\* jnp.prod(a, axis=0): the product down each column of a 2-d array, the
\* product of all the elements of a 1-d array.
ProdAxis0(a) ==
    IF IsError(a) THEN a
    ELSE IF Rank(a) = 2 THEN
        [shape |-> <<a.shape[2]>>,
         data |-> [j \in 1..a.shape[2] |->
                     ProdSeq([i \in 1..a.shape[1] |-> a.data[(i - 1) * a.shape[2] + j]])]]
    ELSE IF Rank(a) = 1 THEN Scalar(ProdSeq(a.data))
    ELSE ShapeError

RECURSIVE CoefSum(_, _)
\* The sum of the coefficients of the monomials of s whose exponent is e.
CoefSum(s, e) ==
    IF s = <<>> THEN 0
    ELSE (IF Head(s).e = e THEN Head(s).c ELSE 0) + CoefSum(Tail(s), e)

\* The sum of a sequence of monomials: its non-zero terms, one per exponent.
Poly(s) ==
    {t \in {[e |-> s[k].e, c |-> CoefSum(s, s[k].e)] : k \in 1..Len(s)} : t.c # 0}

\* jnp.sum(a) with no axis: every axis is reduced, the result is 0-d.
Sum(a) == IF IsError(a) THEN a ELSE Scalar(Poly(a.data))

\* ------------------------------------------------------ SpectralMixture

\* A name not yet bound to an array.
Unset == [shape |-> <<-2>>, data |-> <<>>]

NoKernel == [weight |-> Unset, scale |-> Unset, freq |-> Unset]

\* SpectralMixture.__init__(weight, scale, freq).
SpectralMixture(weight, scale, freq) ==
    [weight |-> AtLeast1d(weight), scale |-> AtLeast1d(scale), freq |-> AtLeast1d(freq)]

\* TauOf without the trailing [..., None]: tau stays 1-d and broadcasts
\* against the components instead of across them.
TauOf_noNewAxis(X1, X2) == AtLeast1d(Map("abs", Broadcast("sub", X1, X2)))

\* TauOf with the inputs added instead of subtracted.
TauOf_plus(X1, X2) == ExpandLast(AtLeast1d(Map("abs", Broadcast("add", X1, X2))))

\* tau = jnp.atleast_1d(jnp.abs(X1 - X2))[..., None]
TauOf(X1, X2) == ExpandLast(AtLeast1d(Map("abs", Broadcast("sub", X1, X2))))

\* jnp.exp(-2 * jnp.pi**2 * tau**2 / self.scale**2)
ExpTerm(self, tau) ==
    Map("exp_neg", Broadcast("div", Map("square", tau), Map("square", self.scale)))

\* jnp.cos(2 * jnp.pi * self.freq * tau)
CosTerm(self, tau) == Map("cos", Broadcast("mul", self.freq, tau))

\* evaluate without the final jnp.sum: one value per component.
evaluate_noSum(self, X1, X2) ==
    LET tau == TauOf(X1, X2)
    IN Broadcast("scale", self.weight,
                 ProdAxis0(Broadcast("mono_mul", ExpTerm(self, tau), CosTerm(self, tau))))

\* SpectralMixture.evaluate(self, X1, X2).
evaluate(self, X1, X2) ==
    LET tau == TauOf(X1, X2)
    IN Sum(Broadcast("scale", self.weight,
                     ProdAxis0(Broadcast("mono_mul", ExpTerm(self, tau), CosTerm(self, tau)))))

\* ============================================================ state

VARIABLES
    \* SpecEval: a kernel, an input pair, a shift, and the covariances
    \* evaluate returned for them.
    args, kern, X1, X2, shift, k12, k21, kshift, kxx, epc,
    \* Spec: the notebook.  pc is the statement to run next.
    pc,
    available,          \* the packages that can be imported
    exc,                \* the exception being handled or propagating, if any
    params, params_id,  \* the dictionary params is bound to, and its identity
    nupd,               \* how many optimizer updates params has received
    t, t_id, y, y_id,   \* the data arrays and their identities
    next_id,            \* the identity the next created object gets
    true_gp, opt_gp,
    loss_fn,            \* the compiled loss: its gradient function
    opt_state, opt_state_n,
    i, iter_pos,        \* the loop variable and the position of range(1000)
    loss_val, loss_n,   \* loss_n, grads_n, updates_n: the update count of the
    grads, grads_n,     \* params each value was computed from
    updates, updates_n,
    plots

evalVars == <<args, kern, X1, X2, shift, k12, k21, kshift, kxx, epc>>
envVars == <<available, exc>>
paramVars == <<params, params_id, nupd>>
dataVars == <<t, t_id, y, y_id>>
modelVars == <<true_gp, opt_gp>>
optVars == <<loss_fn, opt_state, opt_state_n>>
loopVars == <<i, iter_pos>>
stepVars == <<loss_val, loss_n, grads, grads_n, updates, updates_n>>
pipeVars == <<pc, envVars, paramVars, dataVars, next_id, modelVars, optVars,
              loopVars, stepVars, plots>>
vars == <<evalVars, pipeVars>>

\* ========================================================= SpecEval
\* evaluate applied to drawn inputs: the kernel is constructed, then
\* evaluated at (X1, X2), at (X2, X1), at (X1 + shift, X2 + shift) and at
\* (X1, X1).

NoArgs == [weight |-> Unset, scale |-> Unset, freq |-> Unset]

\* The arguments of the constructor for the components comps: three 1-d
\* arrays, or three 0-d arrays for a single component given as scalars.
ArgsOf(comps, asScalars) ==
    IF asScalars
    THEN [weight |-> Scalar(comps[1][1]), scale |-> Scalar(comps[1][2]),
          freq |-> Scalar(comps[1][3])]
    ELSE [weight |-> Vector([q \in 1..Len(comps) |-> comps[q][1]]),
          scale |-> Vector([q \in 1..Len(comps) |-> comps[q][2]]),
          freq |-> Vector([q \in 1..Len(comps) |-> comps[q][3]])]

KernelArgs ==
    {ArgsOf(comps, FALSE) : comps \in UNION {[1..q -> CompVals] : q \in 1..MaxQ}}
    \cup {ArgsOf(comps, TRUE) : comps \in [1..1 -> CompVals]}

\* The inputs of dimension d with coordinates in vals; d = 0 is a scalar
\* input.
Inputs(d, vals) == IF d = 0 THEN {Scalar(x) : x \in vals}
                   ELSE {Vector(s) : s \in [1..d -> vals]}

EvalIdle ==
    /\ epc = "idle"
    /\ args = NoArgs /\ kern = NoKernel
    /\ X1 = Unset /\ X2 = Unset /\ shift = 0
    /\ k12 = Unset /\ k21 = Unset /\ kshift = Unset /\ kxx = Unset

EvalInit ==
    /\ epc = "new"
    /\ args \in KernelArgs
    /\ kern = NoKernel
    /\ \E d \in 0..MaxD : X1 \in Inputs(d, X1Vals) /\ X2 \in Inputs(d, X2Vals)
    /\ shift \in ShiftVals
    /\ k12 = Unset /\ k21 = Unset /\ kshift = Unset /\ kxx = Unset

Construct ==
    /\ epc = "new"
    /\ kern' = SpectralMixture(args.weight, args.scale, args.freq)
    /\ epc' = "built"
    /\ UNCHANGED <<args, X1, X2, shift, k12, k21, kshift, kxx, pipeVars>>

Evaluate ==
    /\ epc = "built"
    /\ k12' = evaluate(kern, X1, X2)
    /\ epc' = "evaluated"
    /\ UNCHANGED <<args, kern, X1, X2, shift, k21, kshift, kxx, pipeVars>>

EvaluateSwapped ==
    /\ epc = "evaluated"
    /\ k21' = evaluate(kern, X2, X1)
    /\ epc' = "swapped"
    /\ UNCHANGED <<args, kern, X1, X2, shift, k12, kshift, kxx, pipeVars>>

EvaluateShifted ==
    /\ epc = "swapped"
    /\ kshift' = evaluate(kern, Broadcast("add", X1, Scalar(shift)),
                                Broadcast("add", X2, Scalar(shift)))
    /\ epc' = "shifted"
    /\ UNCHANGED <<args, kern, X1, X2, shift, k12, k21, kxx, pipeVars>>

EvaluateSame ==
    /\ epc = "shifted"
    /\ kxx' = evaluate(kern, X1, X1)
    /\ epc' = "done"
    /\ UNCHANGED <<args, kern, X1, X2, shift, k12, k21, kshift, pipeVars>>

NextEval == Construct \/ Evaluate \/ EvaluateSwapped \/ EvaluateShifted \/ EvaluateSame

\* ============================================================= Spec
\* The notebook's cells, run in order.  Hyperparameters are fixed-point
\* numbers in units of 1e-4, so the learning rate 3e-4 is 3.

\* How many input locations are drawn (the notebook draws 50).
NData == 2
\* The values a drawn input location and a sampled observation take.
TVals == 0..1
YVals == {-1, 1}
\* The slopes of the loss the compiled gradient function is drawn from.
GradVals == {-1, 1}

\* range(999): one iteration short.
NIter_short == 1000 - 1

NIter == 1000
LearningRate == 3

Packages == {"tinygp", "optax"}

NoExc == [step |-> "none", kind |-> "none"]

Keys == {"log_weight", "log_scale", "log_freq", "log_diag", "mean"}

NoParams == [k \in Keys |-> Unset]

\* The dictionary params is first bound to: np.log of [1, 1], [10, 20],
\* [1, 1/2] and 0.1, and 0.0.
InitParams ==
    [log_weight |-> Vector(<<0, 0>>),
     log_scale |-> Vector(<<23026, 29957>>),
     log_freq |-> Vector(<<0, -6931>>),
     log_diag |-> Scalar(-23026),
     mean |-> Scalar(0)]

NoGP == [kernel |-> NoKernel, X |-> Unset, diag |-> Unset, mean |-> Unset]

\* tinygp.GaussianProcess(kernel, X, diag=..., mean=...).
GaussianProcess(kernel, X, diag, mean) ==
    [kernel |-> kernel, X |-> X, diag |-> diag, mean |-> mean]

\* build_gp with the frequencies read from the wrong key.
build_gp_wrongKey(theta) ==
    LET kernel == SpectralMixture(Map("exp", theta.log_weight),
                                  Map("exp", theta.log_scale),
                                  Map("exp", theta.log_diag))
    IN GaussianProcess(kernel, t, Map("exp", theta.log_diag), theta.mean)

\* build_gp(theta); it reads the global t.
build_gp(theta) ==
    LET kernel == SpectralMixture(Map("exp", theta.log_weight),
                                  Map("exp", theta.log_scale),
                                  Map("exp", theta.log_freq))
    IN GaussianProcess(kernel, t, Map("exp", theta.log_diag), theta.mean)

RECURSIVE Insert(_, _)
Insert(x, s) ==
    IF s = <<>> THEN <<x>>
    ELSE IF x <= Head(s) THEN <<x>> \o s ELSE <<Head(s)>> \o Insert(x, Tail(s))

RECURSIVE sort(_)
\* np.sort.
sort(s) == IF s = <<>> THEN <<>> ELSE Insert(Head(s), sort(Tail(s)))

\* gp.sample(key): one value per input location.
Samples(gp) == {Vector(s) : s \in [1..Len(gp.X.data) -> YVals]}

\* loss(theta) = -build_gp(theta).log_probability(y), held symbolically.
LossValue(theta) == [neg_log_probability_of |-> y, under |-> build_gp(theta)]

NoLoss == [neg_log_probability_of |-> Unset, under |-> NoGP]

\* The compiled loss functions: jax.jit fixes the function, the data t and
\* y being constants of it, so its gradient is one function of theta
\* throughout the loop.  The functions drawn have a constant slope.
LossFns == {[slope |-> g] : g \in GradVals}

\* The gradient half of jax.value_and_grad(loss)(theta): a tree of the
\* structure of theta.
GradOf(fn, theta) ==
    [k \in DOMAIN theta |->
        [shape |-> theta[k].shape,
         data |-> [j \in 1..Len(theta[k].data) |-> fn.slope]]]

\* optax.sgd(learning_rate).update(grads, state): the updates are
\* -learning_rate * grads and the state is returned as it was.
OptUpdate(g, state) ==
    <<[k \in DOMAIN g |-> Broadcast("mul", Scalar(0 - LearningRate), g[k])], state>>

\* optax.apply_updates(params, updates): a new tree, p + u leaf by leaf.
apply_updates(p, u) == [k \in DOMAIN p |-> Broadcast("add", p[k], u[k])]

NoPlots == [data |-> <<Unset, Unset>>, true_kernel |-> NoKernel,
            inferred_kernel |-> NoKernel, conditional |-> <<NoGP, Unset>>]

PipeIdle ==
    /\ pc = "idle"
    /\ available = {} /\ exc = NoExc
    /\ params = NoParams /\ params_id = 0 /\ nupd = 0
    /\ t = Unset /\ t_id = 0 /\ y = Unset /\ y_id = 0
    /\ next_id = 1
    /\ true_gp = NoGP /\ opt_gp = NoGP
    /\ loss_fn = [slope |-> 0] /\ opt_state = "unset" /\ opt_state_n = 0
    /\ i = -1 /\ iter_pos = 0
    /\ loss_val = NoLoss /\ loss_n = 0
    /\ grads = NoParams /\ grads_n = 0
    /\ updates = NoParams /\ updates_n = 0
    /\ plots = NoPlots

PipeInit ==
    /\ pc = "import_tinygp"
    /\ available \in SUBSET Packages /\ exc = NoExc
    /\ params = NoParams /\ params_id = 0 /\ nupd = 0
    /\ t = Unset /\ t_id = 0 /\ y = Unset /\ y_id = 0
    /\ next_id = 1
    /\ true_gp = NoGP /\ opt_gp = NoGP
    /\ loss_fn = [slope |-> 0] /\ opt_state = "unset" /\ opt_state_n = 0
    /\ i = -1 /\ iter_pos = 0
    /\ loss_val = NoLoss /\ loss_n = 0
    /\ grads = NoParams /\ grads_n = 0
    /\ updates = NoParams /\ updates_n = 0
    /\ plots = NoPlots

\* ---- cell 0: the guarded imports

\* try: import <package> / except ImportError: go to the handler.
TryImport(step, package, handler, next) ==
    /\ pc = step
    /\ IF package \in available
       THEN pc' = next /\ UNCHANGED exc
       ELSE /\ exc' = [step |-> step, kind |-> "ImportError"]
            /\ pc' = handler
    /\ UNCHANGED <<available, paramVars, dataVars, next_id, modelVars, optVars,
                   loopVars, stepVars, plots, evalVars>>

\* except ImportError: %pip install -q <package>.  The package is installed,
\* or it is not; the handler ends and with it the handling of the exception.
PipInstall(step, package, next) ==
    /\ pc = step
    /\ \E ok \in BOOLEAN : available' = IF ok THEN available \cup {package} ELSE available
    /\ exc' = NoExc
    /\ pc' = next
    /\ UNCHANGED <<paramVars, dataVars, next_id, modelVars, optVars,
                   loopVars, stepVars, plots, evalVars>>

ImportTinygp == TryImport("import_tinygp", "tinygp", "pip_tinygp", "import_optax")

PipTinygp == PipInstall("pip_tinygp", "tinygp", "import_optax")

ImportOptax == TryImport("import_optax", "optax", "pip_optax", "def_kernel")

PipOptax == PipInstall("pip_optax", "optax", "def_kernel")

\* ---- cell 2: import tinygp (unguarded) and class SpectralMixture

DefKernel ==
    /\ pc = "def_kernel"
    /\ IF "tinygp" \in available
       THEN pc' = "init_params" /\ UNCHANGED exc
       ELSE /\ exc' = [step |-> "def_kernel", kind |-> "ImportError"]
            /\ pc' = "aborted"
    /\ UNCHANGED <<available, paramVars, dataVars, next_id, modelVars, optVars,
                   loopVars, stepVars, plots, evalVars>>

\* ---- cell 4: build_gp, params, t, true_gp, y, the plot of the data

InitParamsStep ==
    /\ pc = "init_params"
    /\ params' = InitParams /\ params_id' = next_id /\ nupd' = 0
    /\ next_id' = next_id + 1
    /\ pc' = "draw_t"
    /\ UNCHANGED <<envVars, dataVars, modelVars, optVars, loopVars, stepVars,
                   plots, evalVars>>

\* t = np.sort(random.uniform(0, 10, 50))
DrawT ==
    /\ pc = "draw_t"
    /\ \E raw \in [1..NData -> TVals] : t' = Vector(sort(raw))
    /\ t_id' = next_id /\ next_id' = next_id + 1
    /\ pc' = "build_true"
    /\ UNCHANGED <<envVars, paramVars, y, y_id, modelVars, optVars, loopVars,
                   stepVars, plots, evalVars>>

BuildTrue ==
    /\ pc = "build_true"
    /\ true_gp' = build_gp(params)
    /\ pc' = "sample"
    /\ UNCHANGED <<envVars, paramVars, dataVars, next_id, opt_gp, optVars,
                   loopVars, stepVars, plots, evalVars>>

Sample ==
    /\ pc = "sample"
    /\ y' \in Samples(true_gp)
    /\ y_id' = next_id /\ next_id' = next_id + 1
    /\ pc' = "plot_data"
    /\ UNCHANGED <<envVars, paramVars, t, t_id, modelVars, optVars, loopVars,
                   stepVars, plots, evalVars>>

PlotData ==
    /\ pc = "plot_data"
    /\ plots' = [plots EXCEPT !.data = <<t, y>>]
    /\ pc' = "def_loss"
    /\ UNCHANGED <<envVars, paramVars, dataVars, next_id, modelVars, optVars,
                   loopVars, stepVars, evalVars>>

\* ---- cell 6: import optax (unguarded), loss, the loop, opt_gp, the kernels

DefLoss ==
    /\ pc = "def_loss"
    /\ IF "optax" \in available
       THEN /\ loss_fn' \in LossFns
            /\ pc' = "opt_init"
            /\ UNCHANGED exc
       ELSE /\ exc' = [step |-> "def_loss", kind |-> "ImportError"]
            /\ pc' = "aborted"
            /\ UNCHANGED loss_fn
    /\ UNCHANGED <<available, paramVars, dataVars, next_id, modelVars, opt_state,
                   opt_state_n, loopVars, stepVars, plots, evalVars>>

\* opt = optax.sgd(learning_rate=3e-4); opt_state = opt.init(params)
OptInit ==
    /\ pc = "opt_init"
    /\ opt_state' = "EmptyState" /\ opt_state_n' = 0
    /\ pc' = "for"
    /\ UNCHANGED <<envVars, paramVars, dataVars, next_id, modelVars, loss_fn,
                   loopVars, stepVars, plots, evalVars>>

\* for i in range(1000): the next value of the range, if there is one.
ForNext ==
    /\ pc = "for"
    /\ iter_pos < NIter
    /\ i' = iter_pos /\ iter_pos' = iter_pos + 1
    /\ pc' = "loss"
    /\ UNCHANGED <<envVars, paramVars, dataVars, next_id, modelVars, optVars,
                   stepVars, plots, evalVars>>

\* The loop left before the range is exhausted.
ForExit_early ==
    /\ pc = "for"
    /\ pc' = "build_opt"
    /\ UNCHANGED <<envVars, paramVars, dataVars, next_id, modelVars, optVars,
                   loopVars, stepVars, plots, evalVars>>

\* The range is exhausted: the loop is left.
ForExit ==
    /\ pc = "for"
    /\ ~(iter_pos < NIter)
    /\ pc' = "build_opt"
    /\ UNCHANGED <<envVars, paramVars, dataVars, next_id, modelVars, optVars,
                   loopVars, stepVars, plots, evalVars>>

\* loss_val, grads = loss(params)
LossStep ==
    /\ pc = "loss"
    /\ loss_val' = LossValue(params) /\ loss_n' = nupd
    /\ grads' = GradOf(loss_fn, params) /\ grads_n' = nupd
    /\ pc' = "update"
    /\ UNCHANGED <<envVars, paramVars, dataVars, next_id, modelVars, optVars,
                   loopVars, updates, updates_n, plots, evalVars>>

\* updates, opt_state = opt.update(grads, opt_state)
UpdateStep ==
    /\ pc = "update"
    /\ updates' = OptUpdate(grads, opt_state)[1] /\ updates_n' = grads_n
    /\ opt_state' = OptUpdate(grads, opt_state)[2] /\ opt_state_n' = opt_state_n + 1
    /\ pc' = "apply"
    /\ UNCHANGED <<envVars, paramVars, dataVars, next_id, modelVars, loss_fn,
                   loopVars, loss_val, loss_n, grads, grads_n, plots, evalVars>>

\* The update written into the dictionary params is bound to: no new
\* object is created.
ApplyStep_inPlace ==
    /\ pc = "apply"
    /\ params' = apply_updates(params, updates)
    /\ nupd' = nupd + 1
    /\ pc' = "for"
    /\ UNCHANGED <<params_id, next_id, envVars, dataVars, modelVars, optVars,
                   loopVars, stepVars, plots, evalVars>>

\* The update followed by true_gp = build_gp(params).
ApplyStep_rebuild ==
    /\ pc = "apply"
    /\ params' = apply_updates(params, updates)
    /\ params_id' = next_id /\ next_id' = next_id + 1
    /\ nupd' = nupd + 1
    /\ true_gp' = build_gp(params')
    /\ pc' = "for"
    /\ UNCHANGED <<envVars, dataVars, opt_gp, optVars, loopVars, stepVars,
                   plots, evalVars>>

\* params = optax.apply_updates(params, updates)
ApplyStep ==
    /\ pc = "apply"
    /\ params' = apply_updates(params, updates)
    /\ params_id' = next_id /\ next_id' = next_id + 1
    /\ nupd' = nupd + 1
    /\ pc' = "for"
    /\ UNCHANGED <<envVars, dataVars, modelVars, optVars, loopVars, stepVars,
                   plots, evalVars>>

BuildOpt ==
    /\ pc = "build_opt"
    /\ opt_gp' = build_gp(params)
    /\ pc' = "plot_kernels"
    /\ UNCHANGED <<envVars, paramVars, dataVars, next_id, true_gp, optVars,
                   loopVars, stepVars, plots, evalVars>>

\* The plots of true_gp.kernel and opt_gp.kernel.
PlotKernels ==
    /\ pc = "plot_kernels"
    /\ plots' = [plots EXCEPT !.true_kernel = true_gp.kernel,
                              !.inferred_kernel = opt_gp.kernel]
    /\ pc' = "plot_cond"
    /\ UNCHANGED <<envVars, paramVars, dataVars, next_id, modelVars, optVars,
                   loopVars, stepVars, evalVars>>

\* ---- cell 8: gp_cond = opt_gp.condition(y, x).gp and its plot

PlotCond ==
    /\ pc = "plot_cond"
    /\ plots' = [plots EXCEPT !.conditional = <<opt_gp, y>>]
    /\ pc' = "done"
    /\ UNCHANGED <<envVars, paramVars, dataVars, next_id, modelVars, optVars,
                   loopVars, stepVars, evalVars>>

\* ---- an exception of a library call: nothing in the notebook but the
\* two guarded imports has a handler, so the run ends.

Steps == {"import_tinygp", "pip_tinygp", "import_optax", "pip_optax", "def_kernel",
          "init_params", "draw_t", "build_true", "sample", "plot_data", "def_loss",
          "opt_init", "for", "loss", "update", "apply", "build_opt", "plot_kernels",
          "plot_cond"}

\* The exception swallowed: execution stays where it is and goes on.
Raise_swallowed ==
    /\ pc \in Steps
    /\ exc' = [step |-> pc, kind |-> "Exception"]
    /\ UNCHANGED <<pc, available, paramVars, dataVars, next_id, modelVars, optVars,
                   loopVars, stepVars, plots, evalVars>>

Raise ==
    /\ pc \in Steps
    /\ exc' = [step |-> pc, kind |-> "Exception"]
    /\ pc' = "aborted"
    /\ UNCHANGED <<available, paramVars, dataVars, next_id, modelVars, optVars,
                   loopVars, stepVars, plots, evalVars>>

Next ==
    \/ ImportTinygp \/ PipTinygp \/ ImportOptax \/ PipOptax
    \/ DefKernel
    \/ InitParamsStep \/ DrawT \/ BuildTrue \/ Sample \/ PlotData
    \/ DefLoss \/ OptInit \/ ForNext \/ ForExit \/ LossStep \/ UpdateStep \/ ApplyStep
    \/ BuildOpt \/ PlotKernels
    \/ PlotCond
    \/ Raise

Init == PipeInit /\ EvalIdle

Spec == Init /\ [][Next]_vars

InitEval == EvalInit /\ PipeIdle

SpecEval == InitEval /\ [][NextEval]_vars

\* =========================================================== claims
\* ---- SpecEval

Evaluated == epc \in {"evaluated", "swapped", "shifted", "done"}

\* |x1[d] - x2[d]| for each input dimension d.
Taus(x1, x2) == [d \in 1..Len(x1) |-> Abs(x1[d] - x2[d])]

RECURSIVE SumSeq(_)
SumSeq(s) == IF s = <<>> THEN 0 ELSE Head(s) + SumSeq(Tail(s))

RECURSIVE CosProd(_, _)
\* The product over the dimensions of cos(2*pi*f*tau), f in quarters.
CosProd(f, taus) ==
    IF taus = <<>> THEN 1
    ELSE CosTab[((f * Head(taus)) % 4) + 1] * CosProd(f, Tail(taus))

\* w * prod_d exp(-2 pi^2 tau_d^2 / s^2) cos(2 pi f tau_d), the exponentials
\* gathered into one: exp(-2 pi^2 (sum_d tau_d^2) / s^2).
ComponentTerm(w, s, f, taus) ==
    [c |-> w * CosProd(f, taus),
     e |-> Rat(SumSeq([d \in 1..Len(taus) |-> taus[d] * taus[d]]), s * s)]

\* The sum over the components q of ComponentTerm, every dimension using
\* scale[q] and freq[q].
SpectralSum(k, x1, x2) ==
    Poly([q \in 1..Len(k.weight.data) |->
            ComponentTerm(k.weight.data[q], k.scale.data[q], k.freq.data[q],
                          Taus(x1.data, x2.data))])

\* C2: evaluate(X1, X2) is the sum over the components q of weight[q] times
\* the product over the input dimensions of
\* exp(-2 pi^2 tau^2 / scale[q]^2) * cos(2 pi freq[q] tau), tau = |X1 - X2|;
\* for a scalar pair that is sum_q weight[q] exp(...) cos(...).
C2_EvaluateIsSpectralSum ==
    Evaluated =>
        /\ k12 = Scalar(SpectralSum(kern, X1, X2))
        /\ Rank(X1) = 0 =>
              k12.data[1] =
                  Poly([q \in 1..Len(kern.weight.data) |->
                          [c |-> kern.weight.data[q]
                                   * CosTab[((kern.freq.data[q]
                                              * Abs(X1.data[1] - X2.data[1])) % 4) + 1],
                           e |-> Rat(Square(Abs(X1.data[1] - X2.data[1])),
                                     Square(kern.scale.data[q]))]])

\* A two-dimensional pair at a two-component kernel whose covariance has two
\* terms of different exponents.
C2_Witness ==
    /\ epc = "done"
    /\ X1.shape = <<2>> /\ X1 # X2
    /\ kern.weight.shape = <<2>>
    /\ Cardinality(k12.data[1]) = 2

\* C7: evaluate returns one scalar for a single pair of inputs, scalar or
\* 1-d of any dimension, whatever the number of components: a 0-d result,
\* never an array and never a shape error.
C7_EvaluateReturnsScalar ==
    /\ Evaluated => k12.shape = <<>> /\ Len(k12.data) = 1
    /\ epc \in {"swapped", "shifted", "done"} => k21.shape = <<>> /\ Len(k21.data) = 1
    /\ epc \in {"shifted", "done"} => kshift.shape = <<>> /\ Len(kshift.data) = 1
    /\ epc = "done" => kxx.shape = <<>> /\ Len(kxx.data) = 1

\* A vector pair whose dimension differs from the number of components.
C7_Witness ==
    /\ epc = "evaluated"
    /\ X1.shape = <<1>> /\ kern.weight.shape = <<2>>
    /\ k12.shape = <<>>

\* C10: evaluate(X1, X2) = evaluate(X2, X1), evaluate(X1 + c, X2 + c) =
\* evaluate(X1, X2), and evaluate(X, X) is the sum of the weights.
C10_SymmetricStationary ==
    /\ epc \in {"swapped", "shifted", "done"} => k21 = k12
    /\ epc \in {"shifted", "done"} => kshift = k12
    /\ epc = "done" =>
          kxx = Scalar({[e |-> <<0, 1>>, c |-> SumSeq(kern.weight.data)]})

\* Distinct inputs, a non-zero shift, and a covariance that is not the one
\* of equal inputs.
C10_Witness ==
    /\ epc = "done"
    /\ X1 # X2 /\ shift # 0
    /\ X1.shape = <<2>>
    /\ k12 # kxx /\ k12.data[1] # {}

\* ---- Spec

\* The statements in the order the notebook holds them.
Order == <<"import_tinygp", "pip_tinygp", "import_optax", "pip_optax", "def_kernel",
           "init_params", "draw_t", "build_true", "sample", "plot_data", "def_loss",
           "opt_init", "for", "loss", "update", "apply", "build_opt", "plot_kernels",
           "plot_cond", "done">>

Index(step) == CHOOSE n \in 1..Len(Order) : Order[n] = step

\* The statement execution stands at: the next one to run, or the one that
\* raised.
Pos == IF pc = "aborted" THEN exc.step ELSE pc

\* Execution has gone past step.
After(step) == Index(Pos) > Index(step)

\* The kernel of a model that has been built has been constructed.
HasKernel(gp) == gp # NoGP => gp.kernel # NoKernel /\ gp.kernel.weight # Unset

\* C1: one synchronous pipeline in a fixed order.  Each result is present
\* exactly when execution has gone past the statement that produces it: the
\* kernel before the model that holds it, y before any loss evaluated on
\* it, every optimizer step before opt_gp, opt_gp before the plots of the
\* inferred kernel and of the conditional predictions.
C1_PipelineOrder ==
    /\ HasKernel(true_gp) /\ HasKernel(opt_gp) /\ HasKernel(loss_val.under)
    /\ After("init_params") <=> params_id # 0
    /\ After("draw_t") <=> t # Unset
    /\ After("build_true") <=> true_gp # NoGP
    /\ After("sample") <=> y # Unset
    /\ After("plot_data") <=> plots.data # <<Unset, Unset>>
    /\ After("opt_init") <=> opt_state # "unset"
    /\ loss_val # NoLoss =>
          /\ After("opt_init")
          /\ y # Unset /\ loss_val.neg_log_probability_of = y
    /\ nupd > 0 => loss_val # NoLoss
    /\ After("build_opt") <=> opt_gp # NoGP
    /\ opt_gp # NoGP => nupd = NIter /\ iter_pos = NIter
    /\ After("plot_kernels") <=> plots.inferred_kernel # NoKernel
    /\ plots.inferred_kernel # NoKernel => plots.inferred_kernel = opt_gp.kernel
    /\ pc = "done" <=> plots.conditional # <<NoGP, Unset>>
    /\ pc = "done" => plots.conditional = <<opt_gp, y>>

\* The whole notebook has run.
C1_Witness ==
    /\ pc = "done"
    /\ nupd = NIter
    /\ plots.inferred_kernel = opt_gp.kernel

\* C3 as stated: whenever an exception has been raised the run has ended;
\* no statement runs after it.
C3_AnyFailureEndsTheRun == exc # NoExc => pc = "aborted"

\* The exceptions the first cell catches.
Caught(e) == e.kind = "ImportError" /\ e.step \in {"import_tinygp", "import_optax"}

\* C3, amended: an exception ends the run, and nothing runs after it,
\* unless it is the ImportError of one of the two guarded imports of the
\* first cell; that one is caught, and its handler is the next to run.
C3_UncaughtFailureEndsTheRun ==
    /\ (exc # NoExc /\ ~Caught(exc)) => pc = "aborted"
    /\ pc = "aborted" => exc # NoExc /\ ~ENABLED Next
    /\ (exc # NoExc /\ Caught(exc)) =>
          \/ pc = "aborted"
          \/ exc.step = "import_tinygp" /\ pc = "pip_tinygp"
          \/ exc.step = "import_optax" /\ pc = "pip_optax"

\* An exception in the middle of the loop.
C3_Witness ==
    /\ pc = "aborted"
    /\ exc = [step |-> "update", kind |-> "Exception"]
    /\ iter_pos = 2 /\ nupd = 1

\* The number of mixture components of the notebook's kernel.
NComp == Len(InitParams.log_weight.data)

\* The three arrays of the kernel of gp have the length NComp.
KernelLengthsMatch(gp) ==
    gp # NoGP =>
        /\ gp.kernel.weight.shape = <<NComp>>
        /\ gp.kernel.scale.shape = <<NComp>>
        /\ gp.kernel.freq.shape = <<NComp>>
        /\ Len(gp.kernel.weight.data) = NComp
        /\ Len(gp.kernel.scale.data) = NComp
        /\ Len(gp.kernel.freq.data) = NComp

\* C4: in every state, the weight, scale and freq arrays of every kernel
\* build_gp has built have the same length, t and y have the same length,
\* and params has the keys and the leaf lengths it started with.
C4_LengthsMatch ==
    /\ KernelLengthsMatch(true_gp)
    /\ KernelLengthsMatch(opt_gp)
    /\ KernelLengthsMatch(loss_val.under)
    /\ y # Unset => y.shape = t.shape /\ Len(y.data) = Len(t.data)
    /\ params_id # 0 =>
          /\ DOMAIN params = DOMAIN InitParams
          /\ \A k \in DOMAIN params :
                /\ params[k].shape = InitParams[k].shape
                /\ Len(params[k].data) = Len(InitParams[k].data)

\* Three optimizer steps in: params has changed, a model has been built
\* from it inside loss, and the lengths are those of the start.
C4_Witness ==
    /\ pc = "update" /\ nupd = 3
    /\ params # InitParams
    /\ loss_val.under # true_gp
    /\ loss_val.under.kernel.freq.shape = <<2>>
    /\ y.shape = t.shape

\* An iteration of the loop ends.
IterationEnds == pc = "apply" /\ pc' = "for"

\* C5 as stated: every training iteration recreates the hyperparameters,
\* the input locations and the observations.
C5_AllRecreatedEachIteration ==
    [][IterationEnds => (params_id' # params_id /\ t_id' # t_id /\ y_id' # y_id)]_vars

\* C5, amended: every training iteration binds params to a newly created
\* dictionary; t and y are created once, before the loop, no iteration
\* recreates or changes them, and they are still in use after the loop,
\* in the plot of the conditional predictions.
C5_ParamsRecreatedDataKept ==
    /\ [][IterationEnds =>
            /\ params_id' # params_id /\ params_id' = next_id
            /\ t_id' = t_id /\ y_id' = y_id /\ t' = t /\ y' = y]_vars
    /\ [](After("opt_init") => (t_id # 0 /\ y_id # 0 /\ t_id < next_id /\ y_id < next_id))
    /\ [](pc = "done" => plots.conditional[2] = y /\ plots.data = <<t, y>>)

\* Two iterations in: params is the fifth object created, t and y are
\* still the second and the third.
C5_Witness ==
    /\ pc = "for" /\ nupd = 2
    /\ params_id = 5 /\ t_id = 2 /\ y_id = 3

\* params after n updates by the compiled gradient function.
ParamsAfter(n) ==
    [k \in DOMAIN InitParams |->
        [shape |-> InitParams[k].shape,
         data |-> [j \in 1..Len(InitParams[k].data) |->
                     InitParams[k].data[j] - LearningRate * loss_fn.slope * n]]]

\* A statement of the loop, or its exit.
LoopStep == ForNext \/ ForExit \/ LossStep \/ UpdateStep \/ ApplyStep

\* C8: the loop is left after exactly 1000 iterations, and until then a
\* statement of it can always run.  Each iteration
\* evaluates the loss and its gradient at the current params, computes the
\* updates from those gradients and the current optimizer state, and
\* replaces params; what iteration i produces is what iteration i + 1
\* consumes; opt_gp is built from the params of the 1000th update, and the
\* last loss_val was evaluated one update earlier.
C8_LoopChain ==
    /\ pc \in {"build_opt", "plot_kernels", "plot_cond", "done"} =>
          iter_pos = 1000 /\ i = 999 /\ nupd = 1000 /\ opt_state_n = 1000
    /\ pc \in {"loss", "update", "apply"} => i = iter_pos - 1 /\ i < 1000
    /\ pc = "for" => nupd = iter_pos /\ opt_state_n = iter_pos
    /\ pc = "loss" => nupd = i /\ opt_state_n = i
    /\ pc = "update" =>
          /\ nupd = i /\ opt_state_n = i
          /\ loss_n = nupd /\ grads_n = nupd
          /\ loss_val = LossValue(params)
          /\ grads = GradOf(loss_fn, params)
    /\ pc = "apply" =>
          /\ nupd = i /\ opt_state_n = i + 1
          /\ updates_n = nupd
          /\ updates = OptUpdate(grads, opt_state)[1]
    /\ pc \in {"for", "loss", "update", "apply"} => params = ParamsAfter(nupd)
    /\ pc \in {"for", "loss", "update", "apply"} =>
          iter_pos <= 1000 /\ ENABLED LoopStep
    /\ opt_gp # NoGP =>
          /\ opt_gp = build_gp(ParamsAfter(1000))
          /\ loss_n = 999
          /\ loss_val.under = build_gp(ParamsAfter(999))

\* The loop has been left and opt_gp built from params the loop changed.
C8_Witness ==
    /\ pc = "plot_kernels"
    /\ iter_pos = 1000
    /\ opt_gp # NoGP /\ opt_gp # true_gp
    /\ loss_n = 999

\* The model build_gp makes of the dictionary params started as.
InitialGP == build_gp(InitParams)

\* C9: the loop leaves true_gp and the data as they were.  Every update
\* binds params to a new dictionary; true_gp keeps the initial
\* hyperparameters, and they are what the 'true kernel' plot shows after
\* the loop; t and y are what they were when plotted before the loop.
C9_ReferenceAndDataUnchanged ==
    /\ true_gp # NoGP => true_gp = InitialGP
    /\ plots.true_kernel # NoKernel =>
          plots.true_kernel = InitialGP.kernel /\ nupd = NIter
    /\ After("plot_data") => plots.data = <<t, y>>
    /\ nupd > 0 => params_id = y_id + nupd /\ params_id = next_id - 1

\* After the loop: params has changed, the 'true kernel' plotted is not the
\* inferred one.
C9_Witness ==
    /\ pc = "plot_cond"
    /\ params # InitParams
    /\ plots.true_kernel = true_gp.kernel
    /\ plots.true_kernel # plots.inferred_kernel
    /\ plots.data = <<t, y>>

====
